---- MODULE Spec2Model ----
(***************************************************************************)
(* The Atem RTM client shim: the in-process simulator                      *)
(* (native/src/atem_rtm.cpp) and the adapter over the vendor RTM client    *)
(* (native/src/atem_rtm_real.cpp), both behind native/include/atem_rtm.h.  *)
(*                                                                         *)
(* Spec      one caller drives both backends with the same calls and the   *)
(*           same arguments, one call per step.                            *)
(* SpecReal  the adapter with the vendor's threads delivering message      *)
(*           events while the application thread creates, logs in, logs    *)
(*           out and destroys, one statement per step.                     *)
(***************************************************************************)
EXTENDS Integers, Sequences, FiniteSets, TLC

\* A C string pointer is NULL or a string value; "" is the empty string.
NULL == "<null>"

\* The two return codes of the C API.
RC_OK == 0
RC_FAIL == -1

\* ------------------------------------------------------------------------
\* Inputs of the calls
\* ------------------------------------------------------------------------
Callbacks == {NULL, "cb"}
UserData == "ctx"

\* AtemRtmConfig values a caller can pass: every field set, or one of the
\* four left NULL; and the null config pointer.
FullConfig ==
  [app_id |-> "A", token |-> "cfgtok", channel |-> "c1", client_id |-> "u1"]
Configs ==
  { FullConfig,
    [FullConfig EXCEPT !.app_id = NULL],
    [FullConfig EXCEPT !.token = NULL],
    [FullConfig EXCEPT !.channel = NULL],
    [FullConfig EXCEPT !.client_id = NULL] }
NullConfig == [null |-> TRUE]

Tokens == {NULL, "", "tok"}
UserIds == {NULL, "", "u1"}
ChannelIds == {NULL, "", "c1", "c2"}
Payloads == {NULL, "", "x"}
Targets == {NULL, "", "peer42"}

\* ------------------------------------------------------------------------
\* The simulator (atem_rtm.cpp)
\* ------------------------------------------------------------------------

\* struct AtemRtmClient after its default member initialisers.
SimClient0 ==
  [config |-> [app_id |-> NULL, token |-> NULL, channel |-> NULL,
               client_id |-> NULL],
   callback |-> NULL, user_data |-> NULL,
   connected |-> FALSE, logged_in |-> FALSE, channel_joined |-> FALSE,
   user_id |-> "", channel_id |-> "", token |-> ""]

\* What one call yields: the client afterwards, the return code and the
\* callback invocations made before the call returned.
SimOut(c, ret, cb) == [c |-> c, ret |-> ret, cb |-> cb]

\* atem_rtm_create: h is "live" when a client is returned, "null" otherwise.
sim_create(config, callback, user_data) ==
  IF config = NullConfig
  THEN [h |-> "null", c |-> SimClient0]
  ELSE [h |-> "live",
        c |-> [SimClient0 EXCEPT !.config = config, !.callback = callback,
                                 !.user_data = user_data,
                                 !.connected = FALSE]]

\* atem_rtm_destroy: the handle afterwards; a non-null client is deleted.
sim_destroy(h) == IF h = "null" THEN "null" ELSE "freed"

sim_connect(h, c) ==
  IF h = "null" THEN SimOut(c, RC_FAIL, <<>>)
  ELSE SimOut([c EXCEPT !.connected = TRUE, !.logged_in = FALSE,
                        !.channel_joined = FALSE], RC_OK, <<>>)

\* A disconnect that drops the connection only.
sim_disconnect_keep(h, c) ==
  IF h = "null" THEN SimOut(c, RC_FAIL, <<>>)
  ELSE SimOut([c EXCEPT !.connected = FALSE], RC_OK, <<>>)

sim_disconnect(h, c) ==
  IF h = "null" THEN SimOut(c, RC_FAIL, <<>>)
  ELSE SimOut([c EXCEPT !.connected = FALSE, !.logged_in = FALSE,
                        !.channel_joined = FALSE], RC_OK, <<>>)

\* A login that does not look at the connection.
sim_login_unchecked(h, c, token, user_id) ==
  IF h = "null" \/ user_id = NULL
  THEN SimOut(c, RC_FAIL, <<>>)
  ELSE SimOut([c EXCEPT !.token = IF token # NULL THEN token ELSE "",
                        !.user_id = user_id,
                        !.logged_in = TRUE], RC_OK, <<>>)

sim_login(h, c, token, user_id) ==
  IF h = "null" \/ ~c.connected \/ user_id = NULL
  THEN SimOut(c, RC_FAIL, <<>>)
  ELSE SimOut([c EXCEPT !.token = IF token # NULL THEN token ELSE "",
                        !.user_id = user_id,
                        !.logged_in = TRUE], RC_OK, <<>>)

\* sim_join_channel that records the channel id before it validates.
sim_join_channel_early(h, c, channel_id) ==
  IF h = "null" \/ channel_id = NULL
  THEN SimOut(c, RC_FAIL, <<>>)
  ELSE IF ~c.logged_in
  THEN SimOut([c EXCEPT !.channel_id = channel_id], RC_FAIL, <<>>)
  ELSE SimOut([c EXCEPT !.channel_id = channel_id,
                        !.channel_joined = TRUE], RC_OK, <<>>)

\* sim_join_channel without the logged_in test.
sim_join_channel_unchecked(h, c, channel_id) ==
  IF h = "null" \/ channel_id = NULL
  THEN SimOut(c, RC_FAIL, <<>>)
  ELSE SimOut([c EXCEPT !.channel_id = channel_id,
                        !.channel_joined = TRUE], RC_OK, <<>>)

sim_join_channel(h, c, channel_id) ==
  IF h = "null" \/ ~c.logged_in \/ channel_id = NULL
  THEN SimOut(c, RC_FAIL, <<>>)
  ELSE SimOut([c EXCEPT !.channel_id = channel_id,
                        !.channel_joined = TRUE], RC_OK, <<>>)

\* One invocation of the registered callback.
Invocation(from, payload, user_data) ==
  [from |-> from, payload |-> payload, user_data |-> user_data]

sim_publish_channel(h, c, payload) ==
  IF h = "null" \/ ~c.connected \/ ~c.channel_joined \/ payload = NULL
  THEN SimOut(c, RC_FAIL, <<>>)
  ELSE SimOut(c, RC_OK,
         IF c.callback # NULL
         THEN << Invocation(IF c.config.client_id # NULL
                            THEN c.config.client_id ELSE "self",
                            payload, c.user_data) >>
         ELSE <<>>)

\* sim_send_peer that also asks for a joined channel.
sim_send_peer_joined(h, c, target_client_id, payload) ==
  IF h = "null" \/ ~c.connected \/ ~c.channel_joined
       \/ target_client_id = NULL \/ payload = NULL
  THEN SimOut(c, RC_FAIL, <<>>)
  ELSE SimOut(c, RC_OK,
         IF c.callback # NULL
         THEN << Invocation(target_client_id, payload, c.user_data) >>
         ELSE <<>>)

\* sim_send_peer that reports the local client as the sender.
sim_send_peer_self(h, c, target_client_id, payload) ==
  IF h = "null" \/ ~c.connected \/ target_client_id = NULL \/ payload = NULL
  THEN SimOut(c, RC_FAIL, <<>>)
  ELSE SimOut(c, RC_OK,
         IF c.callback # NULL
         THEN << Invocation(IF c.config.client_id # NULL
                            THEN c.config.client_id ELSE "self",
                            payload, c.user_data) >>
         ELSE <<>>)

sim_send_peer(h, c, target_client_id, payload) ==
  IF h = "null" \/ ~c.connected \/ target_client_id = NULL \/ payload = NULL
  THEN SimOut(c, RC_FAIL, <<>>)
  ELSE SimOut(c, RC_OK,
         IF c.callback # NULL
         THEN << Invocation(target_client_id, payload, c.user_data) >>
         ELSE <<>>)

\* The connection state the three flags stand for.
SimState(c) ==
  IF ~c.connected THEN "Disconnected"
  ELSE IF ~c.logged_in THEN "Connected"
  ELSE IF ~c.channel_joined THEN "Authenticated"
  ELSE "ChannelJoined"

\* What a call through a dangling pointer may find in the released client:
\* any flags and any callback pointer.
SimGarbage ==
  { [SimClient0 EXCEPT !.connected = a, !.logged_in = b,
                       !.channel_joined = d, !.callback = k] :
      a \in BOOLEAN, b \in BOOLEAN, d \in BOOLEAN, k \in Callbacks }

\* ------------------------------------------------------------------------
\* The vendor-backed adapter (atem_rtm_real.cpp)
\* ------------------------------------------------------------------------

\* struct AtemRtmClient after its default member initialisers.
RealClient0 ==
  [rtm_client |-> NULL, callback |-> NULL, user_data |-> NULL,
   app_id |-> "", token |-> "", channel |-> "", client_id |-> ""]

\* One call into the vendor client.
Call(fn, a1, a2) == [fn |-> fn, a1 |-> a1, a2 |-> a2]

\* What createAgoraRtmClient may hand back: an object and no error, no
\* object and an error, or an object together with an error code.
FactoryOutcomes ==
  { [obj |-> "rtm", err |-> 0], [obj |-> NULL, err |-> 1],
    [obj |-> "rtm", err |-> 1] }

RealOut(c, ret, calls) == [c |-> c, ret |-> ret, calls |-> calls]

\* atem_rtm_create: h as for the simulator; obj is the object the factory
\* handed back, "none" when the factory was not called.
real_create(config, callback, user_data, fac) ==
  IF config = NullConfig
  THEN [h |-> "null", c |-> RealClient0, obj |-> "none"]
  ELSE IF config.app_id = NULL \/ config.client_id = NULL
  THEN [h |-> "null", c |-> RealClient0, obj |-> "none"]
  ELSE LET c == [RealClient0 EXCEPT
                   !.callback = callback, !.user_data = user_data,
                   !.app_id = config.app_id,
                   !.token = IF config.token # NULL THEN config.token ELSE "",
                   !.channel = IF config.channel # NULL THEN config.channel
                               ELSE "",
                   !.client_id = config.client_id,
                   !.rtm_client = fac.obj]
       IN IF c.rtm_client = NULL \/ fac.err # 0
          THEN [h |-> "null", c |-> RealClient0, obj |-> fac.obj]
          ELSE [h |-> "live", c |-> c, obj |-> fac.obj]

\* atem_rtm_destroy: the vendor object is released when the client holds
\* one, then the client is deleted.
real_destroy(h, c) ==
  IF h = "null" THEN RealOut(c, RC_OK, <<>>)
  ELSE IF c.rtm_client # NULL
  THEN RealOut(RealClient0, RC_OK, << Call("release", NULL, NULL) >>)
  ELSE RealOut(RealClient0, RC_OK, <<>>)

real_connect(h, c) ==
  IF h = "null" THEN RealOut(c, RC_FAIL, <<>>)
  ELSE RealOut(c, RC_OK, <<>>)

real_disconnect(h, c) ==
  IF h = "null" \/ c.rtm_client = NULL THEN RealOut(c, RC_FAIL, <<>>)
  ELSE RealOut(c, RC_OK, << Call("logout", NULL, NULL) >>)

real_login(h, c, token, user_id) ==
  IF h = "null" \/ c.rtm_client = NULL THEN RealOut(c, RC_FAIL, <<>>)
  ELSE LET tok == IF token # NULL /\ token # "" THEN token ELSE c.token
       IN RealOut(c, RC_OK, << Call("login", tok, NULL) >>)

real_join_channel(h, c, channel_id) ==
  IF h = "null" \/ c.rtm_client = NULL \/ channel_id = NULL
  THEN RealOut(c, RC_FAIL, <<>>)
  ELSE RealOut(c, RC_OK, << Call("subscribe", channel_id, NULL) >>)

real_publish_channel(h, c, payload) ==
  IF h = "null" \/ c.rtm_client = NULL \/ payload = NULL
  THEN RealOut(c, RC_FAIL, <<>>)
  ELSE RealOut(c, RC_OK, << Call("publish_message", c.channel, payload) >>)

real_send_peer(h, c, target_client_id, payload) ==
  IF h = "null" \/ c.rtm_client = NULL \/ target_client_id = NULL
     \/ payload = NULL
  THEN RealOut(c, RC_FAIL, <<>>)
  ELSE RealOut(c, RC_OK, << Call("publish_user", target_client_id, payload) >>)

\* What a call through a dangling pointer may find in the released client:
\* a null or a stale vendor pointer.
RealGarbage ==
  { [RealClient0 EXCEPT !.rtm_client = r] : r \in {NULL, "rtm"} }

\* The vendor object and the requests it has been given: whether it exists,
\* how often release() was called on it, whether a login is outstanding
\* (requested and not followed by a logout) and the channel of the latest
\* subscribe.
Backend0 ==
  [obj |-> "none", releases |-> 0, session |-> FALSE, subscribed |-> NULL]

BackendMade(b, obj) ==
  IF obj = "none" THEN b
  ELSE [Backend0 EXCEPT !.obj = IF obj # NULL THEN "alive" ELSE "none"]

BackendAfter(b, calls) ==
  IF calls = <<>> THEN b
  ELSE LET k == calls[1]
       IN CASE k.fn = "login" -> [b EXCEPT !.session = TRUE]
            [] k.fn = "logout" -> [b EXCEPT !.session = FALSE]
            [] k.fn = "subscribe" -> [b EXCEPT !.subscribed = k.a1]
            [] k.fn = "release" ->
                 [b EXCEPT !.obj = "released", !.releases = @ + 1,
                           !.session = FALSE]
            [] OTHER -> b

\* What the vendor later reports for a request through onLoginResult,
\* onLogoutResult, onSubscribeResult or onPublishResult: the handlers print
\* the error code and keep nothing.
ErrorCodes == {"ok", "error"}
on_result(calls) == IF calls = <<>> THEN {"none"} ELSE ErrorCodes

\* A return code that gives the vendor's error back to the caller.
real_return_backend(ret, errorCode) ==
  IF errorCode = "error" THEN RC_FAIL ELSE ret

\* What an adapter function returns once its request has been handed over:
\* the code it had already decided on, whatever the vendor does with the
\* request.
real_return(ret, errorCode) == ret

\* ------------------------------------------------------------------------
\* The dispatch boundary of the adapter: onMessageEvent on vendor threads
\* ------------------------------------------------------------------------

\* The vendor threads that may deliver events at the same time.
NThreads == 2
Threads == 1..NThreads

\* An API function that takes AtemRtmClient::mtx before it runs.
api_ready_locked(m) == m = 0

\* What an API function waits for before its body runs: the atem_rtm_*
\* functions take no lock, so nothing.
api_ready(m) == TRUE

\* MessageEvent values: the publisher may be missing.
Events ==
  { [publisher |-> p, message |-> "x"] : p \in {NULL, "peer42"} }
NoEvent == [publisher |-> NULL, message |-> NULL]

\* std::lock_guard<std::mutex> lock(mtx) goes on only while mtx is free.
mtx_lock_free(m) == m = 0

\* The callback invocation onMessageEvent makes for an event.
on_message_invocation(event, user_data) ==
  Invocation(IF event.publisher # NULL THEN event.publisher ELSE "",
             IF event.message # NULL THEN event.message ELSE "",
             user_data)

\* ------------------------------------------------------------------------
\* Spec: one caller, both backends, one call per step
\* ------------------------------------------------------------------------

VARIABLES
  sh,       \* the caller's simulator handle: "null", "live" or "freed"
  sim,      \* the simulator's client
  rh,       \* the caller's adapter handle: "null", "live" or "freed"
  real,     \* the adapter's client
  backend,  \* the vendor object behind the adapter
  op,       \* the last call made and its arguments
  sret,     \* what it returned from the simulator
  rret,     \* what it returned from the adapter
  scb,      \* the callback invocations the simulator made during it
  rcalls,   \* the vendor calls the adapter made during it
  bres,     \* the error code the vendor reports for them, "none" without one
  uaf,      \* a call has read or written a released client
  mem,      \* the adapter client's storage: "none", "live" or "freed"
  apc,      \* where the application thread is inside atem_rtm_destroy
  mtx,      \* AtemRtmClient::mtx: 0 when free, else the thread that holds it
  tpc,      \* where each vendor thread is inside onMessageEvent
  tev       \* the message event each vendor thread is delivering

seqvars == <<sh, sim, op, sret, rret, scb, rcalls, bres>>
thrvars == <<mem, apc, mtx, tpc, tev>>
vars == <<sh, sim, rh, real, backend, op, sret, rret, scb, rcalls, bres,
          uaf, mem, apc, mtx, tpc, tev>>

Op(name, null, a1, a2) == [name |-> name, null |-> null, a1 |-> a1, a2 |-> a2]

Init ==
  /\ sh = "null" /\ sim = SimClient0
  /\ rh = "null" /\ real = RealClient0
  /\ backend = Backend0
  /\ op = Op("none", FALSE, NULL, NULL)
  /\ sret = RC_OK /\ rret = RC_OK
  /\ scb = <<>> /\ rcalls = <<>> /\ bres = "none"
  /\ uaf = FALSE
  /\ mem = "none" /\ apc = "idle" /\ mtx = 0
  /\ tpc = [t \in Threads |-> "idle"]
  /\ tev = [t \in Threads |-> NoEvent]

\* The pointer the caller passes: NULL or the handle it holds.
Passed(h, usenull) == IF usenull THEN "null" ELSE h

\* The client a call runs on. Through a dangling handle it is whatever the
\* released storage holds.
SimSeen(h, c) ==
  IF h = "freed" THEN { [h |-> "live", c |-> g] : g \in SimGarbage }
  ELSE { [h |-> h, c |-> c] }

RealSeen(h, c) ==
  IF h = "freed" THEN { [h |-> "live", c |-> g] : g \in RealGarbage }
  ELSE { [h |-> h, c |-> c] }

\* One call on both backends: so and ro are what the simulator's and the
\* adapter's function yield for it.
ApiCall(name, usenull, a1, a2, so, ro) ==
  LET hs == Passed(sh, usenull)
      hr == Passed(rh, usenull)
  IN /\ sim' = IF hs = "live" THEN so.c ELSE sim
     /\ real' = IF hr = "live" THEN ro.c ELSE real
     /\ backend' = BackendAfter(backend, ro.calls)
     /\ sret' = so.ret
     /\ \E errorCode \in on_result(ro.calls) :
          bres' = errorCode /\ rret' = real_return(ro.ret, errorCode)
     /\ scb' = so.cb /\ rcalls' = ro.calls
     /\ uaf' = (uaf \/ hs = "freed" \/ hr = "freed")
     /\ op' = Op(name, usenull, a1, a2)
     /\ UNCHANGED <<sh, rh>>
     /\ UNCHANGED thrvars

\* atem_rtm_create on both backends; a returned client reads as RC_OK and a
\* null pointer as RC_FAIL.
Create ==
  /\ ~uaf
  /\ sh # "live" /\ rh # "live"
  /\ \E config \in Configs \cup {NullConfig}, callback \in Callbacks,
        fac \in FactoryOutcomes :
       LET s == sim_create(config, callback, UserData)
           r == real_create(config, callback, UserData, fac)
       IN /\ sh' = s.h /\ sim' = s.c
          /\ rh' = r.h /\ real' = r.c
          /\ backend' = BackendMade(backend, r.obj)
          /\ sret' = (IF s.h = "live" THEN RC_OK ELSE RC_FAIL)
          /\ rret' = (IF r.h = "live" THEN RC_OK ELSE RC_FAIL)
          /\ scb' = <<>> /\ rcalls' = <<>> /\ bres' = "none"
          /\ op' = Op("create", config = NullConfig, NULL, NULL)
          /\ UNCHANGED uaf
  /\ UNCHANGED thrvars

\* atem_rtm_destroy on both backends. What the program does after a call on
\* a released client is undefined and is not followed (~uaf in every call).
Destroy ==
  \E usenull \in BOOLEAN :
    LET hs == Passed(sh, usenull)
        hr == Passed(rh, usenull)
    IN \E calls \in { real_destroy(t.h, t.c).calls : t \in RealSeen(hr, real) } :
         /\ ~uaf
         /\ sh' = IF hs = "null" THEN sh ELSE sim_destroy(hs)
         /\ sim' = IF hs = "live" THEN SimClient0 ELSE sim
         /\ rh' = IF hr = "null" THEN rh ELSE "freed"
         /\ real' = IF hr = "live" THEN RealClient0 ELSE real
         /\ backend' = BackendAfter(backend, calls)
         /\ sret' = RC_OK /\ rret' = RC_OK
         /\ scb' = <<>> /\ rcalls' = calls /\ bres' = "none"
         /\ uaf' = (uaf \/ hs = "freed" \/ hr = "freed")
         /\ op' = Op("destroy", usenull, NULL, NULL)
         /\ UNCHANGED thrvars

Connect ==
  /\ ~uaf
  /\ \E usenull \in BOOLEAN :
       \E s \in SimSeen(Passed(sh, usenull), sim),
          r \in RealSeen(Passed(rh, usenull), real) :
         ApiCall("connect", usenull, NULL, NULL,
                 sim_connect(s.h, s.c), real_connect(r.h, r.c))

Disconnect ==
  /\ ~uaf
  /\ \E usenull \in BOOLEAN :
       \E s \in SimSeen(Passed(sh, usenull), sim),
          r \in RealSeen(Passed(rh, usenull), real) :
         ApiCall("disconnect", usenull, NULL, NULL,
                 sim_disconnect(s.h, s.c), real_disconnect(r.h, r.c))

Login ==
  /\ ~uaf
  /\ \E usenull \in BOOLEAN, token \in Tokens, user_id \in UserIds :
       \E s \in SimSeen(Passed(sh, usenull), sim),
          r \in RealSeen(Passed(rh, usenull), real) :
         ApiCall("login", usenull, token, user_id,
                 sim_login(s.h, s.c, token, user_id),
                 real_login(r.h, r.c, token, user_id))

JoinChannel ==
  /\ ~uaf
  /\ \E usenull \in BOOLEAN, channel_id \in ChannelIds :
       \E s \in SimSeen(Passed(sh, usenull), sim),
          r \in RealSeen(Passed(rh, usenull), real) :
         ApiCall("join_channel", usenull, channel_id, NULL,
                 sim_join_channel(s.h, s.c, channel_id),
                 real_join_channel(r.h, r.c, channel_id))

PublishChannel ==
  /\ ~uaf
  /\ \E usenull \in BOOLEAN, payload \in Payloads :
       \E s \in SimSeen(Passed(sh, usenull), sim),
          r \in RealSeen(Passed(rh, usenull), real) :
         ApiCall("publish_channel", usenull, payload, NULL,
                 sim_publish_channel(s.h, s.c, payload),
                 real_publish_channel(r.h, r.c, payload))

SendPeer ==
  /\ ~uaf
  /\ \E usenull \in BOOLEAN, target \in Targets, payload \in Payloads :
       \E s \in SimSeen(Passed(sh, usenull), sim),
          r \in RealSeen(Passed(rh, usenull), real) :
         ApiCall("send_peer", usenull, target, payload,
                 sim_send_peer(s.h, s.c, target, payload),
                 real_send_peer(r.h, r.c, target, payload))

Next ==
  \/ Create
  \/ Destroy
  \/ Connect
  \/ Disconnect
  \/ Login
  \/ JoinChannel
  \/ PublishChannel
  \/ SendPeer

Spec == Init /\ [][Next]_vars


\* ------------------------------------------------------------------------
\* SpecReal: the adapter, its application thread and the vendor's threads
\* ------------------------------------------------------------------------

\* atem_rtm_create. The vendor delivers no message event before a login, so
\* no vendor thread can observe the steps inside it.
RCreate ==
  /\ apc = "idle" /\ rh = "null" /\ mem = "none"
  /\ \E config \in {FullConfig, NullConfig}, callback \in Callbacks,
        fac \in FactoryOutcomes :
       LET r == real_create(config, callback, UserData, fac)
       IN /\ rh' = r.h /\ real' = r.c
          /\ backend' = BackendMade(backend, r.obj)
          /\ mem' = IF r.h = "live" THEN "live"
                    ELSE IF r.obj # "none" THEN "freed" ELSE "none"
  /\ UNCHANGED seqvars /\ UNCHANGED <<uaf, apc, mtx, tpc, tev>>

\* atem_rtm_login and atem_rtm_disconnect from the application thread.
RLogin ==
  /\ apc = "idle" /\ rh = "live"
  /\ \E token \in Tokens, user_id \in UserIds :
       backend' = BackendAfter(backend, real_login(rh, real, token, user_id).calls)
  /\ UNCHANGED seqvars /\ UNCHANGED <<rh, real, uaf, mem, apc, mtx, tpc, tev>>

RDisconnect ==
  /\ apc = "idle" /\ rh = "live"
  /\ backend' = BackendAfter(backend, real_disconnect(rh, real).calls)
  /\ UNCHANGED seqvars /\ UNCHANGED <<rh, real, uaf, mem, apc, mtx, tpc, tev>>

\* atem_rtm_destroy, statement by statement: release() of the vendor object,
\* delete client, return.
RDestroyRelease ==
  /\ apc = "idle" /\ rh = "live"
  /\ backend' = BackendAfter(backend, real_destroy(rh, real).calls)
  /\ real' = [real EXCEPT !.rtm_client = NULL]
  /\ apc' = "destroy_delete"
  /\ UNCHANGED seqvars /\ UNCHANGED <<rh, uaf, mem, mtx, tpc, tev>>

RDestroyDelete ==
  /\ apc = "destroy_delete"
  /\ mem' = "freed"
  /\ real' = real_destroy(rh, real).c
  /\ apc' = "destroy_return"
  /\ UNCHANGED seqvars /\ UNCHANGED <<rh, backend, uaf, mtx, tpc, tev>>

RDestroyReturn ==
  /\ apc = "destroy_return"
  /\ rh' = "freed"
  /\ apc' = "idle"
  /\ UNCHANGED seqvars /\ UNCHANGED <<real, backend, uaf, mem, mtx, tpc, tev>>

\* The vendor calls onMessageEvent on the handler it was created with: it
\* does so only for an object that exists and has a login outstanding.
Deliver(t) ==
  /\ tpc[t] = "idle"
  /\ backend.obj = "alive" /\ backend.session
  /\ \E e \in Events : tev' = [tev EXCEPT ![t] = e]
  /\ tpc' = [tpc EXCEPT ![t] = "lock"]
  /\ UNCHANGED seqvars /\ UNCHANGED <<rh, real, backend, uaf, mem, apc, mtx>>

\* std::lock_guard<std::mutex> lock(mtx). On a deleted client the mutex is
\* released storage: the thread may go on whatever mtx held.
Lock(t) ==
  /\ tpc[t] = "lock"
  /\ mem = "live" => mtx_lock_free(mtx)
  /\ mtx' = t
  /\ uaf' = (uaf \/ mem # "live")
  /\ tpc' = [tpc EXCEPT ![t] = "check"]
  /\ UNCHANGED seqvars /\ UNCHANGED <<rh, real, backend, mem, apc, tev>>

\* if (!callback) return; on a deleted client the pointer read is arbitrary.
Check(t) ==
  /\ tpc[t] = "check"
  /\ \E cb \in (IF mem = "live" THEN {real.callback} ELSE Callbacks) :
       tpc' = [tpc EXCEPT ![t] = IF cb = NULL THEN "exit" ELSE "callback"]
  /\ uaf' = (uaf \/ mem # "live")
  /\ UNCHANGED seqvars /\ UNCHANGED <<rh, real, backend, mem, apc, mtx, tev>>

\* The application's callback calls back into the API on the handle it
\* holds, on the vendor thread that is delivering the event.
Reenter(t) ==
  /\ tpc[t] = "callback" /\ rh = "live"
  /\ tpc' = [tpc EXCEPT ![t] = "api"]
  /\ UNCHANGED seqvars /\ UNCHANGED <<rh, real, backend, uaf, mem, apc, mtx, tev>>

\* That call runs and returns into the callback: atem_rtm_connect, _login,
\* _join_channel, _publish_channel, _send_peer or _disconnect. On a deleted
\* client it runs on whatever the released storage holds.
ReenterReturn(t) ==
  /\ tpc[t] = "api"
  /\ api_ready(mtx)
  /\ \E c \in (IF mem = "live" THEN {real} ELSE RealGarbage) :
       \E ro \in {real_connect(rh, c), real_disconnect(rh, c),
                  real_login(rh, c, NULL, "u1"),
                  real_join_channel(rh, c, "c1"),
                  real_publish_channel(rh, c, "x"),
                  real_send_peer(rh, c, "peer42", "x")} :
         backend' = BackendAfter(backend, ro.calls)
  /\ uaf' = (uaf \/ mem # "live")
  /\ tpc' = [tpc EXCEPT ![t] = "callback"]
  /\ UNCHANGED seqvars /\ UNCHANGED <<rh, real, mem, apc, mtx, tev>>

\* callback(sender, payload, user_data) returns.
CallbackReturn(t) ==
  /\ tpc[t] = "callback"
  /\ tpc' = [tpc EXCEPT ![t] = "exit"]
  /\ UNCHANGED seqvars /\ UNCHANGED <<rh, real, backend, uaf, mem, apc, mtx, tev>>

\* The lock_guard goes out of scope: mtx is unlocked.
Exit(t) ==
  /\ tpc[t] = "exit"
  /\ mtx' = 0
  /\ uaf' = (uaf \/ mem # "live")
  /\ tpc' = [tpc EXCEPT ![t] = "idle"]
  /\ tev' = [tev EXCEPT ![t] = NoEvent]
  /\ UNCHANGED seqvars /\ UNCHANGED <<rh, real, backend, mem, apc>>

NextReal ==
  \/ RCreate
  \/ RLogin
  \/ RDisconnect
  \/ RDestroyRelease
  \/ RDestroyDelete
  \/ RDestroyReturn
  \/ \E t \in Threads : Deliver(t)
  \/ \E t \in Threads : Lock(t)
  \/ \E t \in Threads : Check(t)
  \/ \E t \in Threads : Reenter(t)
  \/ \E t \in Threads : ReenterReturn(t)
  \/ \E t \in Threads : CallbackReturn(t)
  \/ \E t \in Threads : Exit(t)

SpecReal == Init /\ [][NextReal]_vars

\* SpecReal with scheduling: a thread that is inside an API function keeps
\* being run by the operating system, so a step of the function that stays
\* possible is eventually taken. Nothing is assumed about the vendor
\* delivering events, about the application making calls or about the
\* callback returning.
SpecRealFair ==
  /\ SpecReal
  /\ \A t \in Threads : WF_vars(ReenterReturn(t))
  /\ WF_vars(RDestroyDelete) /\ WF_vars(RDestroyReturn)


\* ------------------------------------------------------------------------
\* Properties
\* ------------------------------------------------------------------------

\* A call of the named operation made with the caller's own handle.
Called(name) == op.name = name /\ ~op.null

\* C1: in the simulator, after any sequence of calls on a live handle,
\* logged_in implies connected and channel_joined implies logged_in.
C1_StateOrdering ==
  sh = "live" =>
    /\ sim.logged_in => sim.connected
    /\ sim.channel_joined => sim.logged_in

\* C1 witness: a join has just been accepted on a live handle, so all three
\* flags are set.
C1_Witness ==
  /\ sh = "live" /\ Called("join_channel") /\ sret = RC_OK
  /\ SimState(sim) = "ChannelJoined"

\* C2: connect on a live handle returns 0 and yields Connected from
\* Disconnected, and returns -1 leaving the state unchanged from Connected,
\* Authenticated or ChannelJoined.
C2_ConnectOnlyFromDisconnected ==
  [][ (op'.name = "connect" /\ ~op'.null /\ sh = "live") =>
        IF SimState(sim) = "Disconnected"
        THEN sret' = RC_OK /\ SimState(sim') = "Connected"
        ELSE sret' = RC_FAIL /\ sim' = sim ]_vars

\* C3: publish_channel on a live handle returns 0 exactly when the client
\* has joined a channel and the payload is supplied, and -1 otherwise; a
\* rejected publish invokes no callback and an accepted one invokes the
\* registered callback. For the adapter, having joined means that a login
\* is outstanding and a subscribe has been requested.
C3_PublishOnlyWhenJoined ==
  Called("publish_channel") =>
    /\ sh = "live" =>
         /\ sret = RC_OK <=>
              (SimState(sim) = "ChannelJoined" /\ op.a1 # NULL)
         /\ sret # RC_OK => sret = RC_FAIL /\ scb = <<>>
         /\ (sret = RC_OK /\ sim.callback # NULL) => Len(scb) = 1
    /\ rh = "live" =>
         /\ rret = RC_OK <=>
              (backend.session /\ backend.subscribed # NULL /\ op.a1 # NULL)
         /\ rret # RC_OK => rret = RC_FAIL

\* C4: disconnect on a live handle returns 0 from any state and leaves the
\* client Disconnected with logged_in and channel_joined cleared; a second
\* disconnect right after returns 0 and yields the same client.
C4_DisconnectIdempotent ==
  sh = "live" =>
    LET once == sim_disconnect(sh, sim)
        twice == sim_disconnect(sh, once.c)
    IN /\ once.ret = RC_OK
       /\ SimState(once.c) = "Disconnected"
       /\ ~once.c.logged_in /\ ~once.c.channel_joined
       /\ twice.ret = RC_OK /\ twice.c = once.c /\ twice.cb = once.cb
       /\ Called("disconnect") =>
            /\ sret = RC_OK /\ sim = once.c
            /\ SimState(sim) = "Disconnected"
            /\ ~sim.logged_in /\ ~sim.channel_joined

\* C4 witness: a disconnect has just returned on a client that had logged in
\* and joined channel c2 before.
C4_Witness ==
  /\ sh = "live" /\ Called("disconnect") /\ sret = RC_OK
  /\ sim.user_id = "u1" /\ sim.channel_id = "c2"

\* C5: no call reads or writes a released client: a call made with a
\* destroyed handle is rejected with -1 (a second destroy does nothing)
\* without touching the released storage.
C5_UseAfterDestroyRejected ==
  /\ ~uaf
  /\ (~op.null /\ op.name \notin {"none", "create", "destroy"}) =>
       /\ sh = "freed" => sret = RC_FAIL
       /\ rh = "freed" => rret = RC_FAIL

\* C6: in the adapter the callback runs only between create returning the
\* handle and destroy returning, and no vendor thread runs onMessageEvent on
\* a deleted client.
C6_NoCallbackOutsideLifetime ==
  /\ \A t \in Threads : tpc[t] = "callback" => rh = "live"
  /\ ~uaf

\* C7: while a thread is inside the callback invoked from onMessageEvent,
\* the dispatch mutex is free.
C7_NoLockHeldInCallback ==
  \A t \in Threads : tpc[t] = "callback" => mtx = 0

\* C8: at most one vendor thread is inside the user callback at any
\* instant, for any number of threads delivering events in any interleaving.
C8_CallbacksSerialized ==
  Cardinality({ t \in Threads : tpc[t] = "callback" }) <= 1

\* C9: every call made on handles that both backends returned gets the same
\* return code from the simulator and from the adapter.
C9_SameReturnCodes ==
  (sh = "live" /\ rh = "live" /\ op.name # "none") => sret = rret

\* C10: a vendor object the factory returned is released exactly once: never
\* twice, and it is unreleased only while a client that create returned owns
\* it.
C10_ReleasedExactlyOnce ==
  /\ backend.releases <= 1
  /\ backend.obj = "alive" => rh = "live"


\* C11: login on a live handle is accepted only from Connected: from
\* Disconnected, Authenticated or ChannelJoined it returns -1 and changes
\* nothing; from Connected with a participant id it returns 0 and the state
\* becomes Authenticated.
C11_LoginOnlyFromConnected ==
  [][ (op'.name = "login" /\ ~op'.null /\ sh = "live") =>
        /\ SimState(sim) # "Connected" => sret' = RC_FAIL /\ sim' = sim
        /\ (SimState(sim) = "Connected" /\ op'.a2 \notin {NULL, ""}) =>
             sret' = RC_OK /\ SimState(sim') = "Authenticated" ]_vars


\* C12: in the simulator, join_channel with a supplied channel id returns 0
\* exactly when the client is Authenticated or ChannelJoined and -1
\* otherwise; after a success the state is ChannelJoined and the recorded
\* membership is the id just given, whatever it was before.
C12_JoinExactlyWhenAuthenticated ==
  [][ (op'.name = "join_channel" /\ ~op'.null /\ sh = "live"
         /\ op'.a1 # NULL) =>
        /\ sret' \in {RC_OK, RC_FAIL}
        /\ sret' = RC_OK <=>
             SimState(sim) \in {"Authenticated", "ChannelJoined"}
        /\ sret' = RC_OK =>
             SimState(sim') = "ChannelJoined" /\ sim'.channel_id = op'.a1 ]_vars

\* C12 case: a join accepted on a live simulator client whose membership is
\* now "c2".
C12_Witness ==
  /\ Called("join_channel") /\ sh = "live" /\ sret = RC_OK
  /\ op.a1 = "c2" /\ sim.channel_id = "c2" /\ sim.channel_joined


\* C13: in the simulator, send_peer with a supplied target and payload
\* returns 0 in every connected state (Connected, Authenticated,
\* ChannelJoined) and -1 when the client is Disconnected.
C13_SendPeerWhenConnected ==
  (Called("send_peer") /\ sh = "live" /\ op.a1 # NULL /\ op.a2 # NULL) =>
    IF SimState(sim) = "Disconnected" THEN sret = RC_FAIL ELSE sret = RC_OK

\* C13 case: a send_peer accepted while the client is connected but has
\* neither logged in nor joined.
C13_Witness ==
  /\ Called("send_peer") /\ sh = "live" /\ sret = RC_OK
  /\ SimState(sim) = "Connected"

C15_EmptyStringRejected ==
  [][ (/\ ~op'.null /\ sh = "live"
       /\ \/ op'.name = "login" /\ op'.a2 = ""
          \/ op'.name = "join_channel" /\ op'.a1 = ""
          \/ op'.name = "publish_channel" /\ op'.a1 = ""
          \/ op'.name = "send_peer" /\ (op'.a1 = "" \/ op'.a2 = "")) =>
        sret' = RC_FAIL /\ sim' = sim /\ scb' = <<>> ]_vars


\* C16: an accepted login records the resolved token: the token supplied
\* when it is non-empty, otherwise the token configured at create (the empty
\* string when none was configured).  The simulator records it in the
\* client; the adapter hands it to the backend's login.
C16_ResolvedTokenRecorded ==
  LET resolved(token, configured) ==
        IF token \notin {NULL, ""} THEN token
        ELSE IF configured # NULL THEN configured ELSE ""
  IN  /\ (Called("login") /\ sh = "live" /\ sret = RC_OK) =>
           sim.token = resolved(op.a1, sim.config.token)
      /\ (Called("login") /\ rh = "live" /\ rret = RC_OK) =>
           rcalls = << Call("login", resolved(op.a1, real.token), NULL) >>


\* C18: in the adapter, publish_channel sends to the current channel
\* membership: the channel handed to the backend's publish is the channel id
\* of the most recent accepted join_channel.
C18_PublishToJoinedChannel ==
  (Called("publish_channel") /\ rh = "live" /\ rret = RC_OK
     /\ backend.subscribed # NULL) =>
    \A i \in 1..Len(rcalls) : rcalls[i].a1 = backend.subscribed


\* C19: what the adapter returns from connect, disconnect, login,
\* join_channel, publish_channel and send_peer is decided by the presence of
\* the handle and of the required arguments alone: 0 when they are present,
\* -1 when not, whatever error code the vendor reports for the request.
C19_ReturnIgnoresBackend ==
  LET present == ~op.null /\ rh = "live"
      expected ==
        CASE op.name \in {"connect", "disconnect", "login"} -> present
          [] op.name \in {"join_channel", "publish_channel"} ->
               present /\ op.a1 # NULL
          [] op.name = "send_peer" ->
               present /\ op.a1 # NULL /\ op.a2 # NULL
  IN  (~uaf /\ op.name \notin {"none", "create", "destroy"}) =>
        rret = IF expected THEN RC_OK ELSE RC_FAIL

\* C19 case: the vendor reports an error for a login request and the login
\* call has returned 0.
C19_Witness ==
  /\ Called("login") /\ rh = "live" /\ ~uaf
  /\ bres = "error" /\ rret = RC_OK


\* C17: every call of the adapter's API comes back to its caller: a call
\* made from inside the message callback, while the delivering thread holds
\* mtx, returns into the callback, and a destroy in progress on the
\* application thread returns; no call waits for mtx or for the vendor.
C17_CallsComplete ==
  /\ \A t \in Threads : (tpc[t] = "api") ~> (tpc[t] = "callback")
  /\ (apc # "idle") ~> (apc = "idle")

\* C17 case: a vendor thread holds mtx inside onMessageEvent and the
\* callback it is running has called back into the API.
C17_Witness ==
  \E t \in Threads : tpc[t] = "api" /\ mtx = t /\ mem = "live"


\* C20: in the simulator, a connect, disconnect, login, join_channel,
\* publish_channel or send_peer that returns -1 leaves the whole client
\* (connection flags, recorded user id, channel id and token) as it was and
\* invokes the callback zero times; an accepted publish_channel or send_peer
\* changes none of the client either.
C20_RejectedCallChangesNothing ==
  [][ (/\ op'.name \notin {"none", "create", "destroy"}
       /\ op'.null \/ sh = "live") =>
        /\ sret' = RC_FAIL => sim' = sim /\ scb' = <<>>
        /\ op'.name \in {"publish_channel", "send_peer"} => sim' = sim ]_vars

\* C20 case: a join_channel of "c2" was rejected on a client that is not
\* logged in and still records "c1" from an earlier session.
C20_Witness ==
  /\ Called("join_channel") /\ sh = "live" /\ sret = RC_FAIL
  /\ op.a1 = "c2" /\ sim.channel_id = "c1" /\ ~sim.logged_in

====
